---- MODULE Spec2Model ----
(***************************************************************************)
(* A model of monitor.py, the Iberia multi-city fare monitor: the offer    *)
(* matcher, the ranking and best-price selection, the duration parser and  *)
(* per-leg proration of summarize_offer, the persisted last price, and the *)
(* notification fan-out, as run by main() once per invocation.             *)
(*                                                                         *)
(* Conventions.  A Python str is a sequence of one-character (or, for      *)
(* timestamps, one-token) strings.  A Python dict is a record; a missing   *)
(* key is a field that is not in its DOMAIN.  An optional value is None or *)
(* Some(v).  Money is an integer number of thousandths of the currency     *)
(* unit (300.004 is 300004), so that the 0.005 of the delta note and the   *)
(* two decimals of the report are both exact.  A call that can raise       *)
(* returns Ok(v) or Raised(exception).                                     *)
(***************************************************************************)
EXTENDS Integers, Sequences, FiniteSets, TLC

VARIABLES
    stateFile,    \* price_state.json: None (absent), or Some(last_price)
    historyCsv,   \* price_history.csv: the rows appended so far
    run,          \* what the last invocation of main() did
    call,         \* a pure function under check: its name and argument
    ret,          \* ... and what it returned, Pending before the call
    threshold,    \* the alert threshold configured: None or Some(price)
    itinState,    \* ItineraryState of the alert state machine
    alerts,       \* alert events emitted so far
    observed      \* the prices observed so far, in order

vars == <<stateFile, historyCsv, run, call, ret, threshold, itinState, alerts, observed>>

mainVars == <<stateFile, historyCsv, run>>
pureVars == <<call, ret>>
alertVars == <<threshold, itinState, alerts, observed>>

----------------------------------------------------------------------------
(* Python values *)

None == [none |-> TRUE]
Some(v) == [none |-> FALSE, v |-> v]
Ok(v) == [raised |-> FALSE, v |-> v]
Raised(e) == [raised |-> TRUE, exc |-> e]
Pending == [pending |-> TRUE]
Idle == [idle |-> TRUE]

\* LET x == e IN F(x), with e evaluated once however often F uses x.
Once(e, F(_)) == CHOOSE r \in {F(x) : x \in {e}} : TRUE

\* d.get(k, default)
Get(d, k, default) == IF k \in DOMAIN d THEN d[k] ELSE default

\* s.startswith(prefix)
StartsWith(s, prefix) ==
    /\ Len(s) >= Len(prefix)
    /\ SubSeq(s, 1, Len(prefix)) = prefix

\* c in s
Contains(s, c) == \E i \in 1..Len(s) : s[i] = c

\* The index of the first c in s (c occurs in s).
FirstIndex(s, c) == CHOOSE i \in 1..Len(s) : s[i] = c /\ \A j \in 1..(i-1) : s[j] # c

\* s.split(c)[0], for c in s: the text before the first c.
SplitHead(s, c) == SubSeq(s, 1, FirstIndex(s, c) - 1)

\* s.split(c)[1], for c in s: the text between the first c and the next one
\* (or the end).
SplitSecond(s, c) ==
    LET rest == SubSeq(s, FirstIndex(s, c) + 1, Len(s))
    IN  IF Contains(rest, c) THEN SplitHead(rest, c) ELSE rest

Digits == {"0", "1", "2", "3", "4", "5", "6", "7", "8", "9"}

DigitVal(c) ==
    CASE c = "0" -> 0 [] c = "1" -> 1 [] c = "2" -> 2 [] c = "3" -> 3
      [] c = "4" -> 4 [] c = "5" -> 5 [] c = "6" -> 6 [] c = "7" -> 7
      [] c = "8" -> 8 [] c = "9" -> 9

RECURSIVE DigitsVal(_)
DigitsVal(s) ==
    IF s = <<>> THEN 0
    ELSE 10 * DigitsVal(SubSeq(s, 1, Len(s) - 1)) + DigitVal(s[Len(s)])

AllDigits(s) == s # <<>> /\ \A i \in 1..Len(s) : s[i] \in Digits

\* int(s) of a str: an optional sign and decimal digits, ValueError otherwise.
PyInt(s) ==
    IF AllDigits(s) THEN Ok(DigitsVal(s))
    ELSE IF s # <<>> /\ s[1] \in {"-", "+"} /\ AllDigits(Tail(s))
         THEN Ok((IF s[1] = "-" THEN -1 ELSE 1) * DigitsVal(Tail(s)))
    ELSE Raised("ValueError")

----------------------------------------------------------------------------
(* Duration parsing: format_duration and the loop of summarize_offer *)

PT == <<"P", "T">>

\* The two `if "H" in tmp` / `if "M" in tmp` blocks, on the text after "PT":
\* Ok([h, m]) or the ValueError of int().
\* One `if c in tmp` block: p = tmp.split(c), the number int(p[0]) if p[0]
\* else 0, and for the hours the text left, p[1].
NumberBefore(tmp, c) ==
    IF ~Contains(tmp, c) THEN Ok(0)
    ELSE Once(SplitHead(tmp, c), LAMBDA p0 : IF p0 # <<>> THEN PyInt(p0) ELSE Ok(0))

ParseHoursMinutes(tmp0) ==
    Once(NumberBefore(tmp0, "H"), LAMBDA h :
        IF h.raised THEN h
        ELSE Once(IF Contains(tmp0, "H") THEN SplitSecond(tmp0, "H") ELSE tmp0, LAMBDA tmp1 :
             Once(NumberBefore(tmp1, "M"), LAMBDA m :
                 IF m.raised THEN m ELSE Ok([h |-> h.v, m |-> m.v]))))

\* format_duration(dur), dur None or Some(text): the text shown.  "raw" is
\* the argument passed through, "hm" is f"{h}h {m}m".
format_duration(dur) ==
    IF dur.none THEN Ok([kind |-> "raw", text |-> <<>>])
    ELSE IF dur.v = <<>> \/ ~StartsWith(dur.v, PT)
         THEN Ok([kind |-> "raw", text |-> dur.v])
    ELSE Once(ParseHoursMinutes(SubSeq(dur.v, 3, Len(dur.v))), LAMBDA hm :
             IF hm.raised THEN hm
             ELSE Ok([kind |-> "hm", h |-> hm.v.h, m |-> hm.v.m]))

\* The body of summarize_offer's `for itin in itins` loop: the minutes of one
\* itinerary, from itin.get("duration", "").
ItineraryMinutes(itin) ==
    LET dur == Get(itin, "duration", <<>>)
        tmp == IF StartsWith(dur, PT) THEN SubSeq(dur, 3, Len(dur)) ELSE <<>>
    IN  Once(ParseHoursMinutes(tmp), LAMBDA hm :
            IF hm.raised THEN hm ELSE Ok(hm.v.h * 60 + hm.v.m))

----------------------------------------------------------------------------
(* Offer matcher *)

\* ORIGIN_DESTINATIONS: the three legs searched for.
ORIGIN_DESTINATIONS == <<
    [originLocationCode |-> "SJU", destinationLocationCode |-> "FCO", date |-> "2026-05-06"],
    [originLocationCode |-> "FCO", destinationLocationCode |-> "MAD", date |-> "2026-05-17"],
    [originLocationCode |-> "MAD", destinationLocationCode |-> "SJU", date |-> "2026-05-20"] >>

\* The body of the `for od_idx, itin in enumerate(itins, start=1)` loop from
\* index od_idx on: Ok(TRUE) when the loop runs out, Ok(FALSE) at the first
\* `return False`, IndexError at ORIGIN_DESTINATIONS[od_idx-1] past its end.
RECURSIVE MatchFrom(_, _)
MatchFrom(itins, od_idx) ==
    IF od_idx > Len(itins) THEN Ok(TRUE)
    ELSE LET segs == Get(itins[od_idx], "segments", <<>>)
         IN  IF segs = <<>> THEN Ok(FALSE)
             ELSE IF od_idx > Len(ORIGIN_DESTINATIONS) THEN Raised("IndexError")
             ELSE LET first == segs[1]
                      dep == Get(first, "departure", << >>)
                      arr == Get(first, "arrival", << >>)
                      od == ORIGIN_DESTINATIONS[od_idx]
                      at == Get(dep, "at", <<>>)
                  IN  IF Get(dep, "iataCode", "None") # od.originLocationCode THEN Ok(FALSE)
                      ELSE IF Get(arr, "iataCode", "None") # od.destinationLocationCode THEN Ok(FALSE)
                      ELSE IF ~StartsWith(at, <<od.date, "T">>) THEN Ok(FALSE)
                      ELSE MatchFrom(itins, od_idx + 1)

matches_routes_no_time(offer) ==
    LET itins == Get(offer, "itineraries", <<>>)
    IN  IF Len(itins) < 3 THEN Ok(FALSE) ELSE MatchFrom(itins, 1)

----------------------------------------------------------------------------
(* Brand, price, ranking *)

\* str.upper(), on the letters the brands of the model are written with.
UpperChar(c) ==
    CASE c = "o" -> "O" [] c = "p" -> "P" [] c = "t" -> "T" [] c = "i" -> "I"
      [] c = "m" -> "M" [] c = "a" -> "A" [] c = "l" -> "L" [] c = "b" -> "B"
      [] c = "s" -> "S" [] c = "c" -> "C"
      [] OTHER -> c

Upper(s) == [i \in 1..Len(s) |-> UpperChar(s[i])]

\* sub in s, for two str
Infix(sub, s) ==
    \E i \in 0..(Len(s) - Len(sub)) : SubSeq(s, i + 1, i + Len(sub)) = sub

OPTIMA == <<"O", "P", "T", "I", "M", "A">>
OPTIMAL == <<"O", "P", "T", "I", "M", "A", "L">>

branded_is_optima(offer) ==
    LET tps == Get(offer, "travelerPricings", <<>>)
    IN  \E t \in 1..Len(tps) :
            LET fds == Get(tps[t], "fareDetailsBySegment", <<>>)
            IN  \E f \in 1..Len(fds) :
                    LET brand == Upper(Get(fds[f], "brandedFare", <<>>))
                    IN  Infix(OPTIMA, brand) \/ Infix(OPTIMAL, brand)

\* A grandTotal text is [num |-> TRUE, milli |-> n], a decimal number, or
\* [num |-> FALSE], a text float() rejects.
Amount(n) == [num |-> TRUE, milli |-> n]
NotANumber == [num |-> FALSE]

PyFloat(text) == IF text.num THEN Ok(text.milli) ELSE Raised("ValueError")

\* 9999999, the whole part of the 9999999.0 that price_float gives an offer
\* whose grandTotal is missing or unparsable
MissingPrice == 9999999

\* price_float(offer), as <<whole units, thousandths>>: 9999999.0 does not fit
\* the thousandths of a 32-bit integer.
price_float(offer) ==
    LET gt == Get(Get(offer, "price", << >>), "grandTotal", NotANumber)
        f == PyFloat(gt)
    IN  IF ~("grandTotal" \in DOMAIN Get(offer, "price", << >>)) \/ f.raised
        THEN <<MissingPrice, 0>>
        ELSE <<f.v \div 1000, f.v % 1000>>

\* The sort key (not branded_is_optima(o), price_float(o)); False < True.
SortKey(o) == <<IF branded_is_optima(o) THEN 1 ELSE 2>> \o price_float(o)

\* a < b for two key tuples
RECURSIVE KeyLess(_, _)
KeyLess(a, b) ==
    /\ a # <<>>
    /\ \/ Head(a) < Head(b)
       \/ Head(a) = Head(b) /\ KeyLess(Tail(a), Tail(b))

\* A sort that is not stable: x goes before the first element whose key is
\* greater or equal.
InsertBeforeEqual(sorted, x) ==
    Once({i \in 1..Len(sorted) : ~KeyLess(SortKey(sorted[i]), SortKey(x))}, LAMBDA after :
        LET pos == IF after = {} THEN Len(sorted) + 1
                   ELSE CHOOSE i \in after : \A j \in after : i <= j
        IN  SubSeq(sorted, 1, pos - 1) \o <<x>> \o SubSeq(sorted, pos, Len(sorted)))

\* list.sort is stable: x goes before the first element whose key is greater.
InsertByKey(sorted, x) ==
    Once({i \in 1..Len(sorted) : KeyLess(SortKey(x), SortKey(sorted[i]))}, LAMBDA after :
        LET pos == IF after = {} THEN Len(sorted) + 1
                   ELSE CHOOSE i \in after : \A j \in after : i <= j
        IN  SubSeq(sorted, 1, pos - 1) \o <<x>> \o SubSeq(sorted, pos, Len(sorted)))

RECURSIVE SortCandidates(_)
SortCandidates(cands) ==
    IF cands = <<>> THEN <<>>
    ELSE Once(SortCandidates(SubSeq(cands, 1, Len(cands) - 1)), LAMBDA sorted :
             InsertByKey(sorted, cands[Len(cands)]))

----------------------------------------------------------------------------
(* summarize_offer *)

\* d.get(k): None for a missing key
GetOpt(d, k) == IF k \in DOMAIN d THEN Some(d[k]) ELSE None

RECURSIVE SumSeq(_)
SumSeq(s) == IF s = <<>> THEN 0 ELSE Head(s) + SumSeq(Tail(s))

Max(a, b) == IF a >= b THEN a ELSE b
Min(a, b) == IF a <= b THEN a ELSE b

\* Estimates that split the total equally whatever the durations.
EqualSplitEstimates(total_f, mins, n_itins) ==
    LET n == Max(1, n_itins)
    IN  [i \in 1..n |-> [num |-> total_f, den |-> n]]

\* total_f * (mm / total_mins) and total_f / n are kept as exact fractions
\* [num, den]: the model leaves out the rounding of the floating point.
ProratedEstimates(total_f, mins, n_itins) ==
    Once(SumSeq(mins), LAMBDA total_mins :
        IF total_mins > 0
        THEN [i \in 1..Len(mins) |-> [num |-> total_f * mins[i], den |-> total_mins]]
        ELSE LET n == Max(1, n_itins)
             IN  [i \in 1..n |-> [num |-> total_f, den |-> n]])

\* summarize_offer(offer): Ok of the total, the per-leg estimates, the legs
\* listed (zip(itins, per_leg_est) with each itinerary's duration text) and the
\* brand flag, or the ValueError of a duration's int().
summarize_offer(offer) ==
    LET total == Get(Get(offer, "price", << >>), "grandTotal", Amount(0))
        tf == PyFloat(total)
        total_f == IF tf.raised THEN 0 ELSE tf.v
        itins == Get(offer, "itineraries", <<>>)
        segRaises == \E i \in 1..Len(itins) :
                         LET segs == Get(itins[i], "segments", <<>>)
                         IN  \E j \in 1..Len(segs) :
                                 format_duration(GetOpt(segs[j], "duration")).raised
    IN  Once([i \in 1..Len(itins) |-> ItineraryMinutes(itins[i])], LAMBDA minsR :
        Once([i \in 1..Len(itins) |-> format_duration(GetOpt(itins[i], "duration"))], LAMBDA durR :
            IF (\E i \in 1..Len(itins) : minsR[i].raised \/ durR[i].raised) \/ segRaises
            THEN Raised("ValueError")
            ELSE Once([i \in 1..Len(itins) |-> minsR[i].v], LAMBDA mins :
                 Once(ProratedEstimates(total_f, mins, Len(itins)), LAMBDA per_leg_est :
                     Ok([total_f |-> total_f,
                         mins |-> mins,
                         per_leg_est |-> per_leg_est,
                         legs |-> [i \in 1..Min(Len(itins), Len(per_leg_est)) |->
                                      [est |-> per_leg_est[i], dur |-> durR[i].v]],
                         is_optima |-> branded_is_optima(offer)])))))

----------------------------------------------------------------------------
(* main: candidates, best price, delta note, state and history files *)

\* [off for off in offers if matches_routes_no_time(off)]: Ok(list), or the
\* exception of the first offer whose match raises.
RECURSIVE Candidates(_)
Candidates(offers) ==
    IF offers = <<>> THEN Ok(<<>>)
    ELSE Once(matches_routes_no_time(Head(offers)), LAMBDA m :
             IF m.raised THEN m
             ELSE Once(Candidates(Tail(offers)), LAMBDA rest :
                      IF rest.raised THEN rest
                      ELSE Ok((IF m.v THEN <<Head(offers)>> ELSE <<>>) \o rest.v)))

\* The minimum of a non-empty sequence of numbers.
RECURSIVE MinSeq(_)
MinSeq(s) == IF Len(s) = 1 THEN s[1] ELSE Min(s[1], MinSeq(Tail(s)))

\* The `for i, off in enumerate(candidates, start=1)` loop over the sorted
\* candidates, which breaks at i > TOP_N: Ok(best_price), the least total_f
\* of the offers summarized, or the exception of a summarize_offer.
BestOfTopN(ranked, TOP_N) ==
    LET k == Min(TOP_N, Len(ranked))
    IN  Once([i \in 1..k |-> summarize_offer(ranked[i])], LAMBDA sums :
            IF \E i \in 1..k : sums[i].raised THEN Raised("ValueError")
            ELSE Once([i \in 1..k |-> sums[i].v.total_f], LAMBDA totals : Ok(MinSeq(totals))))

\* f"{x:.2f}", in hundredths, for x >= 0 in thousandths (a tie goes to the even
\* hundredth, as it does for a float that holds the tie exactly).
Fmt2(x) ==
    LET q == x \div 10
        r == x % 10
    IN  IF r < 5 THEN q
        ELSE IF r > 5 THEN q + 1
        ELSE IF q % 2 = 0 THEN q ELSE q + 1

\* change_note, from last_price (None or Some) and best_price.
ChangeNote(last_price, best_price) ==
    IF last_price.none THEN [kind |-> "first run"]
    ELSE IF best_price > last_price.v
         THEN [kind |-> "up", by |-> Fmt2(best_price - last_price.v)]
    ELSE IF best_price < last_price.v
         THEN [kind |-> "down", by |-> Fmt2(last_price.v - best_price)]
    ELSE [kind |-> "unchanged"]

\* What price_state.json holds when it is not valid JSON with a last_price.
Garbage == [garbage |-> TRUE]

\* load_last_price(): None when the file is absent or cannot be read as a
\* number; json writes a float so that reading it gives the same float.
load_last_price(file) ==
    IF file.none THEN None
    ELSE IF "last_price" \in DOMAIN file.v THEN Some(file.v.last_price)
    ELSE None

\* save_last_price(price): the file afterwards.  open() may fail, leaving the
\* file as it was; a failure after open(..., "w") leaves it truncated.
SaveOutcomes == {"written", "open failed", "write failed"}

save_last_price(file, price, outcome) ==
    CASE outcome = "written" -> Some([last_price |-> price])
      [] outcome = "open failed" -> file
      [] outcome = "write failed" -> Some(Garbage)

HeaderRow == [header |-> TRUE]

\* append_history(price, note): the rows afterwards (the timestamp column is
\* left out); a failure is caught and appends nothing.
append_history(rows, price, note, ok) ==
    IF ~ok THEN rows
    ELSE (IF rows = <<>> THEN <<HeaderRow>> ELSE rows)
         \o <<[best_price |-> Fmt2(price), note |-> note]>>

----------------------------------------------------------------------------
(* Notifiers *)

\* The channels, in the order broadcast tries them.
ChannelOrder == <<"email", "telegram", "discord">>
Channels == {ChannelOrder[i] : i \in 1..Len(ChannelOrder)}

\* What the environment of one run makes of a channel: not named in
\* NOTIFY_CHANNELS, named without its settings, named and its send succeeds,
\* named and its send fails (an exception, or a bad HTTP status).
ChannelStates == {"off", "no settings", "ok", "fails"}

\* notify_email / notify_telegram / notify_discord on a channel broadcast
\* calls: the send is skipped without settings and a failure is caught.
Notify(st) ==
    CASE st = "no settings" -> "skipped"
      [] st = "ok" -> "sent"
      [] st = "fails" -> "failed"

\* A broadcast that a failed send ends: the channels after it are not tried.
BroadcastStopsAtFailure(env) ==
    [ch \in Channels |->
        IF \E i, j \in 1..Len(ChannelOrder) :
               i < j /\ ChannelOrder[j] = ch /\ env[ChannelOrder[i]] = "fails"
        THEN "not attempted"
        ELSE IF env[ch] = "off" THEN "off" ELSE Notify(env[ch])]

\* broadcast(subject, body): what became of each channel.
broadcast(env) ==
    [ch \in Channels |-> IF env[ch] = "off" THEN "off" ELSE Notify(env[ch])]

----------------------------------------------------------------------------
(* The offers the runs of main() are given *)

Txt_PT2H == <<"P", "T", "2", "H">>
Txt_PT1H == <<"P", "T", "1", "H">>
Txt_PTxH == <<"P", "T", "x", "H">>
BrandOptima == <<"O", "P", "T", "I", "M", "A">>
BrandOptimalLower == <<"o", "p", "t", "i", "m", "a", "l">>
BrandBasic == <<"B", "A", "S", "I", "C">>

Segment(origin, dest, at) ==
    [departure |-> [iataCode |-> origin, at |-> at], arrival |-> [iataCode |-> dest]]

\* An itinerary of one segment that matches leg i, leaving at clock time t.
GoodItinerary(i, t, dur) ==
    LET od == ORIGIN_DESTINATIONS[i]
    IN  [segments |-> <<Segment(od.originLocationCode, od.destinationLocationCode,
                                <<od.date, "T", t>>)>>,
         duration |-> dur]

GoodItineraries(dur) == [i \in 1..3 |-> GoodItinerary(i, "10:00:00", dur)]

Pricing(brand) == <<[fareDetailsBySegment |-> <<[brandedFare |-> brand]>>]>>

Offer(itins, brand, total) ==
    [itineraries |-> itins, travelerPricings |-> Pricing(brand),
     price |-> [grandTotal |-> total]]

\* A brand offer at 500.000, a plain offer at 300.000, an offer on another
\* date, an offer of four itineraries, an offer with a duration int() rejects.
MainPool == {
    Offer(GoodItineraries(Txt_PT2H), BrandOptima, Amount(500000)),
    Offer(GoodItineraries(Txt_PT2H), BrandBasic, Amount(300000)),
    Offer([i \in 1..3 |-> GoodItinerary(1, "10:00:00", Txt_PT2H)], BrandBasic, Amount(100000)),
    Offer(GoodItineraries(Txt_PT2H) \o <<GoodItinerary(1, "10:00:00", Txt_PT2H)>>,
          BrandBasic, Amount(100000)),
    Offer(GoodItineraries(Txt_PTxH), BrandBasic, Amount(100000)) }

\* Bounds of the runs of main().
MaxOffers == 2
MaxTopN == 2
MaxRuns == 2

RECURSIVE SeqsUpTo(_, _)
SeqsUpTo(S, n) ==
    IF n = 0 THEN {<<>>}
    ELSE Once(SeqsUpTo(S, n - 1), LAMBDA shorter :
             shorter \cup {Append(s, x) : s \in {t \in shorter : Len(t) = n - 1}, x \in S})

OfferLists == SeqsUpTo(MainPool, MaxOffers)

\* Every environment of the channels, and those in which the three channels
\* are in the same state.
ChannelEnvs == [Channels -> ChannelStates]
UniformEnvs == {env \in ChannelEnvs : \A c, d \in Channels : env[c] = env[d]}

----------------------------------------------------------------------------
(* main(), one action for each way a run ends *)

\* main() from `offers = data.get("data", [])` to the end of the loop over the
\* candidates: the exception raised, "no offers", or the best price.
Evaluate(offers, TOP_N) ==
    Once(Candidates(offers), LAMBDA c :
        IF c.raised THEN [kind |-> "match raised", exc |-> c.exc]
        ELSE IF c.v = <<>> THEN [kind |-> "no offers"]
        ELSE Once(SortCandidates(c.v), LAMBDA ranked :
             Once(BestOfTopN(ranked, TOP_N), LAMBDA b :
                 IF b.raised THEN [kind |-> "summarize raised", exc |-> b.exc]
                 ELSE [kind |-> "best", best_price |-> b.v])))

Evaluations == {Evaluate(offers, TOP_N) : offers \in OfferLists, TOP_N \in 1..MaxTopN}

\* The credentials are missing, or get_access_token or search_flight_offers
\* raises: nothing is read or written.
MainFetchRaises ==
    /\ \E e \in {"RuntimeError", "HTTPError"} : run' = [kind |-> "raised", exc |-> e]
    /\ UNCHANGED <<stateFile, historyCsv, pureVars, alertVars>>

\* matches_routes_no_time raises on an offer: the run ends there.
MainMatchRaises ==
    \E ev \in Evaluations :
        /\ ev.kind = "match raised"
        /\ run' = [kind |-> "raised", exc |-> ev.exc]
        /\ UNCHANGED <<stateFile, historyCsv, pureVars, alertVars>>

\* A run without candidates that forgets the last price.
MainNoOffersClearsState(envs) ==
    \E ev \in Evaluations :
        /\ ev.kind = "no offers"
        /\ \E env \in envs :
               run' = [kind |-> "no offers", env |-> env, sent |-> broadcast(env)]
        /\ stateFile' = None
        /\ UNCHANGED <<historyCsv, pureVars, alertVars>>

\* `if not candidates`: the "No offers found" message is broadcast and the
\* run returns.
MainNoOffers(envs) ==
    \E ev \in Evaluations :
        /\ ev.kind = "no offers"
        /\ \E env \in envs :
               run' = [kind |-> "no offers", env |-> env, sent |-> broadcast(env)]
        /\ UNCHANGED <<stateFile, historyCsv, pureVars, alertVars>>

\* summarize_offer raises on one of the first TOP_N candidates: the run ends
\* before the state is read or written.
MainSummarizeRaises ==
    \E ev \in Evaluations :
        /\ ev.kind = "summarize raised"
        /\ run' = [kind |-> "raised", exc |-> ev.exc]
        /\ UNCHANGED <<stateFile, historyCsv, pureVars, alertVars>>

\* The run reports: the delta note against the loaded last price, the state
\* saved, the history appended, the report broadcast.
MainReport(envs) ==
    \E ev \in Evaluations :
        /\ ev.kind = "best"
        /\ \E env \in envs, saving \in SaveOutcomes, appended \in BOOLEAN :
            LET last_price == load_last_price(stateFile)
                change_note == ChangeNote(last_price, ev.best_price)
            IN  /\ stateFile' = save_last_price(stateFile, ev.best_price, saving)
                /\ historyCsv' = append_history(historyCsv, ev.best_price, change_note, appended)
                /\ run' = [kind |-> "report",
                           last_price |-> last_price,
                           best_price |-> ev.best_price,
                           change_note |-> change_note,
                           saved |-> ev.best_price,
                           saving |-> saving,
                           env |-> env,
                           sent |-> broadcast(env)]
        /\ UNCHANGED <<pureVars, alertVars>>

\* The variables of the pure functions and of the alert state machine, while
\* main() runs; those of main() while a function is checked on its own.
NoCall == call = Idle /\ ret = Idle
NoAlerting == threshold = None /\ itinState = Idle /\ alerts = <<>> /\ observed = <<>>
NoRun == stateFile = None /\ historyCsv = <<>> /\ run = Idle

\* A first installation: no state file, no history.
Init ==
    /\ stateFile = None
    /\ historyCsv = <<>>
    /\ run = Idle
    /\ NoCall /\ NoAlerting

\* The history has room for another row (the bound on the runs that report).
HistoryHasRoom == Len(historyCsv) <= MaxRuns

Next ==
    \/ MainFetchRaises
    \/ MainMatchRaises
    \/ MainNoOffers(UniformEnvs)
    \/ MainSummarizeRaises
    \/ HistoryHasRoom /\ MainReport(UniformEnvs)

Spec == Init /\ [][Next]_vars

----------------------------------------------------------------------------
(* One run of main() under every environment of the channels *)

\* A first installation, or the files a run that reported 300.000 leaves.
InitNotify ==
    /\ \/ stateFile = None /\ historyCsv = <<>>
       \/ /\ stateFile = Some([last_price |-> 300000])
          /\ historyCsv = <<HeaderRow, [best_price |-> 30000, note |-> [kind |-> "first run"]]>>
    /\ run = Idle
    /\ NoCall /\ NoAlerting

FirstRun == run = Idle

NextNotify ==
    \/ FirstRun /\ MainFetchRaises
    \/ FirstRun /\ MainMatchRaises
    \/ FirstRun /\ MainNoOffers(ChannelEnvs)
    \/ FirstRun /\ MainSummarizeRaises
    \/ FirstRun /\ MainReport(ChannelEnvs)

SpecNotify == InitNotify /\ [][NextNotify]_vars

----------------------------------------------------------------------------
(* The pure functions, each applied to every input of a bounded set *)

Calls(fn, args) == {[fn |-> fn, arg |-> a] : a \in args}

Called(fn) == call # Idle /\ call.fn = fn /\ ret = Pending

Returns(v) == ret' = v /\ UNCHANGED <<call, mainVars, alertVars>>

InitPure(calls) == call \in calls /\ ret = Pending /\ NoRun /\ NoAlerting

\* Duration texts: every str of at most MaxDurLen characters of DurChars, and
\* an absent duration.
DurChars == {"P", "T", "H", "M", "1", "x"}
MaxDurLen == 6
OptDurTexts(n) == {None} \cup {Some(t) : t \in SeqsUpTo(DurChars, n)}

FormatDuration == Called("format_duration") /\ Returns(format_duration(call.arg))

\* The itinerary whose "duration" is the text, or that has none.
ItineraryOf(dur) == IF dur.none THEN [segments |-> <<>>] ELSE [segments |-> <<>>, duration |-> dur.v]

SummarizeMinutes == Called("minutes") /\ Returns(ItineraryMinutes(ItineraryOf(call.arg)))

InitDur ==
    InitPure(Calls("format_duration", OptDurTexts(MaxDurLen))
             \cup Calls("minutes", OptDurTexts(MaxDurLen)))
NextDur == FormatDuration \/ SummarizeMinutes
SpecDur == InitDur /\ [][NextDur]_vars

----------------------------------------------------------------------------
(* matches_routes_no_time on offers of every shape *)

\* The itineraries an offer may hold at position i: two that match leg i at
\* different clock times, one whose second segment goes elsewhere, and those
\* with a part missing, empty or different.
LegShapes(i) ==
    LET od == ORIGIN_DESTINATIONS[i]
        o == od.originLocationCode
        d == od.destinationLocationCode
        at == <<od.date, "T", "10:00:00">>
    IN  { [segments |-> <<Segment(o, d, at)>>],
          [segments |-> <<Segment(o, d, <<od.date, "T", "23:59:00">>)>>],
          [segments |-> <<Segment(o, d, at), Segment(d, "XXX", at)>>],
          [duration |-> Txt_PT2H],
          [segments |-> <<>>],
          [segments |-> <<Segment("XXX", d, at)>>],
          [segments |-> <<Segment(o, "XXX", at)>>],
          [segments |-> <<Segment(o, d, <<"2026-05-07", "T", "10:00:00">>)>>],
          [segments |-> <<Segment(o, d, <<od.date>>)>>],
          [segments |-> <<Segment(o, d, <<>>)>>],
          [segments |-> <<[departure |-> [iataCode |-> o], arrival |-> [iataCode |-> d]]>>],
          [segments |-> <<[departure |-> [at |-> at], arrival |-> [iataCode |-> d]]>>],
          [segments |-> <<[departure |-> [iataCode |-> o, at |-> at]]>>],
          [segments |-> <<[arrival |-> [iataCode |-> d]]>>] }

\* The leg whose shapes fill position i of an offer: past the third
\* position, those of the first legs again.
LegOf(i) == ((i - 1) % Len(ORIGIN_DESTINATIONS)) + 1

MaxItins == 4

RECURSIVE ItineraryLists(_)
ItineraryLists(n) ==
    IF n = 0 THEN {<<>>}
    ELSE {Append(l, x) : l \in ItineraryLists(n - 1), x \in LegShapes(LegOf(n))}

\* An offer without "itineraries", and the offers of at most n itineraries.
MatchOffers(n) ==
    {[price |-> [grandTotal |-> Amount(300000)]]}
    \cup UNION {{[itineraries |-> l] : l \in ItineraryLists(k)} : k \in 0..n}

MatchesRoutes == Called("matches_routes_no_time") /\ Returns(matches_routes_no_time(call.arg))

InitMatch == InitPure(Calls("matches_routes_no_time", MatchOffers(MaxItins)))
NextMatch == MatchesRoutes
SpecMatch == InitMatch /\ [][NextMatch]_vars

----------------------------------------------------------------------------
(* The ranking and the best price of the candidates *)

\* Candidates: offers that match the routes, of three brands (one of them
\* OPTIMAL in lower case) or with no traveler pricing, with a grand total of
\* 300.000 or 500.000, none, or one float() rejects.  "id" is the
\* place of the offer in the input.
RankBrands == {BrandOptima, BrandOptimalLower, BrandBasic}
RankTotals == {Amount(300000), Amount(500000), NotANumber}

RankPool ==
    {Offer(GoodItineraries(Txt_PT2H), b, t) : b \in RankBrands, t \in RankTotals}
    \cup {[itineraries |-> GoodItineraries(Txt_PT2H), travelerPricings |-> Pricing(b),
           price |-> [currency |-> "USD"]] : b \in RankBrands}
    \cup {[itineraries |-> GoodItineraries(Txt_PT2H), price |-> [grandTotal |-> t]] : t \in RankTotals}

MaxCandidates == 3

Numbered(l) == [i \in 1..Len(l) |-> [f \in DOMAIN l[i] \cup {"id"} |-> IF f = "id" THEN i ELSE l[i][f]]]

CandidateLists(n) == {Numbered(l) : l \in SeqsUpTo(RankPool, n)}

Rank == Called("sort") /\ Returns(Ok(SortCandidates(call.arg)))

InitRank == InitPure(Calls("sort", CandidateLists(MaxCandidates)))
NextRank == Rank
SpecRank == InitRank /\ [][NextRank]_vars

\* The sort and the loop of main() on the candidates, for a TOP_N.
SelectBest ==
    /\ Called("best")
    /\ Returns(Once(SortCandidates(call.arg.candidates), LAMBDA ranked :
                   BestOfTopN(ranked, call.arg.TOP_N)))

SelectInputs(maxLen, maxTopN) ==
    {[candidates |-> l, TOP_N |-> n] : l \in CandidateLists(maxLen) \ {<<>>}, n \in 1..maxTopN}

InitSelect == InitPure(Calls("best", SelectInputs(MaxCandidates, MaxTopN)))
NextSelect == SelectBest
SpecSelect == InitSelect /\ [][NextSelect]_vars

----------------------------------------------------------------------------
(* summarize_offer on offers of up to MaxLegs itineraries *)

Txt_PT60M == <<"P", "T", "6", "0", "M">>
Txt_PT1H30M == <<"P", "T", "1", "H", "3", "0", "M">>

\* Durations of 120, 60, 60 and 90 minutes, three that parse to 0 ("PT", the
\* empty text, a text without "PT"), one int() rejects, and none.
SummDurs ==
    {None} \cup {Some(t) : t \in {Txt_PT2H, Txt_PT1H, Txt_PT60M, Txt_PT1H30M, PT, <<>>,
                                  <<"2", "H">>, Txt_PTxH}}

MaxLegs == 3

SummOffers(n) ==
    LET itinLists == {[i \in 1..Len(l) |-> ItineraryOf(l[i])] : l \in SeqsUpTo(SummDurs, n)}
    IN  {[itineraries |-> l, price |-> [grandTotal |-> t]] :
            l \in itinLists, t \in {Amount(300000), Amount(100000), NotANumber}}
        \cup {[itineraries |-> l] : l \in itinLists}

Summarize == Called("summarize_offer") /\ Returns(summarize_offer(call.arg))

InitSumm == InitPure(Calls("summarize_offer", SummOffers(MaxLegs)))
NextSumm == Summarize
SpecSumm == InitSumm /\ [][NextSumm]_vars

----------------------------------------------------------------------------
(* The delta note on pairs of prices some thousandths apart *)

NoteBase == 100 * 1000
NoteSpread == 6
NotePrices == (NoteBase - NoteSpread)..(NoteBase + NoteSpread)

NoteInputs ==
    {[last_price |-> l, best_price |-> b] :
        l \in {None} \cup {Some(x) : x \in NotePrices}, b \in NotePrices}

DeltaNote ==
    /\ Called("change_note")
    /\ Returns(Ok(ChangeNote(call.arg.last_price, call.arg.best_price)))

InitNote == InitPure(Calls("change_note", NoteInputs))
NextNote == DeltaNote
SpecNote == InitNote /\ [][NextNote]_vars

----------------------------------------------------------------------------
(* The alert state machine *)

\* A level-triggered transition: an alert for every price under the threshold.
LevelTriggeredTransition(st, thr, price) ==
    [state |-> [lastPrice |-> Some(price),
                alertedBelow |-> ~thr.none /\ price < thr.v],
     alert |-> ~thr.none /\ price < thr.v]

\* The transition on an observed price: the state afterwards and whether an
\* alert event is emitted.
AlertTransition(st, thr, price) ==
    LET fire == ~thr.none /\ price < thr.v /\ ~st.alertedBelow
        reset == ~thr.none /\ price >= thr.v /\ st.alertedBelow
    IN  [state |-> [lastPrice |-> Some(price),
                    alertedBelow |-> IF fire THEN TRUE
                                     ELSE IF reset THEN FALSE
                                     ELSE st.alertedBelow],
         alert |-> fire]

AlertPrices == {600000, 700000, 800000, 820000, 850000, 900000}
AlertThreshold == 850 * 1000
MaxObserved == 6

\* A run that observes a qualifying price.
Observe ==
    /\ Len(observed) < MaxObserved
    /\ \E price \in AlertPrices :
        LET t == AlertTransition(itinState, threshold, price)
        IN  /\ itinState' = t.state
            /\ alerts' = IF t.alert THEN Append(alerts, price) ELSE alerts
            /\ observed' = Append(observed, price)
    /\ UNCHANGED <<threshold, mainVars, pureVars>>

\* A run that finds no qualifying offer: the state is left as it is.
MissingObservation == UNCHANGED vars

InitAlert ==
    /\ threshold \in {None, Some(AlertThreshold)}
    /\ itinState = [lastPrice |-> None, alertedBelow |-> FALSE]
    /\ alerts = <<>>
    /\ observed = <<>>
    /\ NoRun /\ NoCall

NextAlert == Observe \/ MissingObservation
SpecAlert == InitAlert /\ [][NextAlert]_vars

----------------------------------------------------------------------------
(* The claims *)

Returned == ret # Idle /\ ret # Pending
Ran(kind) == run # Idle /\ run.kind = kind

ExamplePrices == <<900000, 800000, 820000, 700000, 900000, 600000>>

\* What C1 says of one run that observes a price.
C1_StepRule ==
    (observed' # observed /\ ~threshold.none) =>
        LET price == observed'[Len(observed')]
            crossing == price < threshold.v /\ ~itinState.alertedBelow
        IN  /\ crossing => alerts' = Append(alerts, price) /\ itinState'.alertedBelow
            /\ ~crossing => alerts' = alerts
            /\ (price >= threshold.v /\ itinState.alertedBelow) => ~itinState'.alertedBelow

\* C1: with a threshold configured, a run that observes a price emits an alert
\* event exactly when the price is under the threshold and alertedBelow was
\* false before the run, and then sets alertedBelow; a run whose price is at or
\* over the threshold while alertedBelow is true clears the flag and emits
\* nothing; no other run emits an alert.  The prices 900, 800, 820, 700, 900,
\* 600 against the threshold 850 emit exactly two alerts, at 800 and at 600.
C1_EdgeTriggeredAlerts ==
    /\ []((observed = ExamplePrices /\ threshold = Some(AlertThreshold))
            => alerts = <<800000, 600000>>)
    /\ [][C1_StepRule]_vars

C1_Witness ==
    /\ observed = ExamplePrices
    /\ threshold = Some(AlertThreshold)
    /\ Len(alerts) = 2

\* What C2 says of one step that ends in the "no offers" report.
C2_StepRule ==
    (run' # run /\ run'.kind = "no offers") =>
        /\ stateFile' = stateFile
        /\ load_last_price(stateFile') = load_last_price(stateFile)
        /\ ~("saved" \in DOMAIN run')

\* C2: a run in which no offer qualifies leaves the state file as it was, so
\* that load_last_price returns on the next run what it returned before, for
\* every prior state, and it does not call save_last_price.
C2_NoOffersKeepsState == [][C2_StepRule]_vars

C2_Witness ==
    /\ Ran("no offers")
    /\ stateFile = Some([last_price |-> 500000])
    /\ Len(historyCsv) > 0

\* The note C3 expects: "first run" without a last price, "unchanged" under
\* 0.005 of difference, otherwise "up" or "down".
ExpectedNote(last_price, best_price) ==
    IF last_price.none THEN "first run"
    ELSE IF best_price - last_price.v < 5 /\ last_price.v - best_price < 5 THEN "unchanged"
    ELSE IF best_price > last_price.v THEN "up"
    ELSE "down"

\* C3: the delta note of a new best price against the last price is "(first
\* run)" when there is none, "unchanged" when the two differ by less than
\* 0.005, "increased" when the new price is higher by 0.005 or more,
\* "decreased" when it is lower by 0.005 or more, for every pair of prices.
C3_DeltaNoteWithinEpsilon ==
    (Returned /\ call.fn = "change_note") =>
        ret.v.kind = ExpectedNote(call.arg.last_price, call.arg.best_price)

PriceLeq(a, b) == price_float(a) = price_float(b) \/ KeyLess(price_float(a), price_float(b))

\* C4: the candidates are ranked by a stable ascending sort on (not brand,
\* price): the result is the input reordered, every offer of the OPTIMA brand
\* precedes every offer without it, prices do not decrease within each group,
\* offers equal on both keys keep their input order; so of two offers at the
\* same price of which one has the brand, that one is first.
C4_StableBrandThenPrice ==
    (Returned /\ call.fn = "sort") =>
        LET r == ret.v
            n == Len(call.arg)
        IN  /\ Len(r) = n
            /\ {r[i].id : i \in 1..n} = 1..n
            /\ \A i \in 1..n : r[i] = call.arg[r[i].id]
            /\ \A i, j \in 1..n : i < j =>
                /\ branded_is_optima(r[j]) => branded_is_optima(r[i])
                /\ (branded_is_optima(r[i]) <=> branded_is_optima(r[j])) => PriceLeq(r[i], r[j])
                /\ ((branded_is_optima(r[i]) <=> branded_is_optima(r[j]))
                    /\ price_float(r[i]) = price_float(r[j])) => r[i].id < r[j].id
            /\ (n = 2 /\ price_float(call.arg[1]) = price_float(call.arg[2])
                /\ ~branded_is_optima(call.arg[1]) /\ branded_is_optima(call.arg[2]))
                   => r = <<call.arg[2], call.arg[1]>>

C4_Witness ==
    /\ Returned /\ call.fn = "sort"
    /\ Len(call.arg) = 3
    /\ ~branded_is_optima(call.arg[1]) /\ branded_is_optima(call.arg[3])
    /\ SortKey(call.arg[1]) = SortKey(call.arg[2])
    /\ price_float(call.arg[1]) = price_float(call.arg[3])
    /\ ret.v = <<call.arg[3], call.arg[1], call.arg[2]>>

\* The grand totals of the candidates that have one float() accepts.
NumericTotals(cands) ==
    {cands[i].price.grandTotal.milli :
        i \in {k \in 1..Len(cands) : /\ "grandTotal" \in DOMAIN cands[k].price
                                     /\ cands[k].price.grandTotal.num}}

\* C5: after a run in which an offer qualifies, the best price reported, saved
\* and appended to the history is the lowest price among all the qualifying
\* offers, for every list of offers, every TOP_N >= 1 and every grandTotal.
C5_BestIsCheapest ==
    (Returned /\ call.fn = "best" /\ ~ret.raised /\ NumericTotals(call.arg.candidates) # {}) =>
        /\ ret.v \in NumericTotals(call.arg.candidates)
        /\ \A t \in NumericTotals(call.arg.candidates) : ret.v <= t

\* The itinerary at index i of the offer has a segment, and its first segment
\* leaves the origin of leg i for the destination of leg i on the date of leg i.
LegMatches(offer, i) ==
    /\ "itineraries" \in DOMAIN offer
    /\ Len(offer.itineraries) >= i
    /\ "segments" \in DOMAIN offer.itineraries[i]
    /\ offer.itineraries[i].segments # <<>>
    /\ LET first == offer.itineraries[i].segments[1]
           od == ORIGIN_DESTINATIONS[i]
       IN  /\ "departure" \in DOMAIN first /\ "arrival" \in DOMAIN first
           /\ "iataCode" \in DOMAIN first.departure /\ "iataCode" \in DOMAIN first.arrival
           /\ "at" \in DOMAIN first.departure
           /\ first.departure.iataCode = od.originLocationCode
           /\ first.arrival.iataCode = od.destinationLocationCode
           /\ Len(first.departure.at) >= 2
           /\ first.departure.at[1] = od.date /\ first.departure.at[2] = "T"

EveryLegMatches(offer) == \A i \in 1..3 : LegMatches(offer, i)

\* C6: matches_routes_no_time accepts an offer if and only if every one of the
\* three legs matches its route: the itinerary at that index has a segment
\* whose first segment leaves the expected origin for the expected destination
\* on the expected date, whatever the clock time.
C6_AcceptsIffEveryLegMatches ==
    (Returned /\ call.fn = "matches_routes_no_time") =>
        ((ret = Ok(TRUE)) <=> EveryLegMatches(call.arg))

\* C7: matches_routes_no_time never raises: for every offer, of 0, 1, 2, 3 or
\* more itineraries and whichever parts are missing or empty, it returns a
\* boolean, and a non-match when a part it needs is missing.
C7_MatcherNeverRaises ==
    (Returned /\ call.fn = "matches_routes_no_time") =>
        /\ ~ret.raised
        /\ ret.v \in BOOLEAN
        /\ ~EveryLegMatches(call.arg) => ret.v = FALSE

\* C8: duration parsing never raises: for every duration text, format_duration
\* and the parsing inside summarize_offer complete without an exception, a
\* text that is absent or does not start with "PT" giving zero minutes and
\* being shown as it is.
C8_DurationNeverRaises ==
    (Returned /\ call.fn \in {"format_duration", "minutes"}) =>
        /\ ~ret.raised
        /\ (call.arg.none \/ ~StartsWith(call.arg.v, PT)) =>
               IF call.fn = "minutes" THEN ret.v = 0
               ELSE ret.v = [kind |-> "raw", text |-> IF call.arg.none THEN <<>> ELSE call.arg.v]

\* The minutes of the itineraries of an offer, as summarize_offer parses them.
MinutesOf(offer) ==
    [i \in 1..Len(offer.itineraries) |-> ItineraryMinutes(offer.itineraries[i]).v]

TotalOf(offer) ==
    IF "price" \in DOMAIN offer /\ offer.price.grandTotal.num
    THEN offer.price.grandTotal.milli ELSE 0

\* Two fractions [num, den] of positive denominators are the same number.
SameNumber(a, b) ==
    /\ a.den > 0 /\ b.den > 0
    /\ a.num \div a.den = b.num \div b.den
    /\ (a.num % a.den) * b.den = (b.num % b.den) * a.den

Whole(x) == [num |-> x, den |-> 1]

\* C9: the per-leg estimates prorate the grand total by duration: when the
\* minutes of the itineraries sum to more than 0, leg i gets
\* total * minutes_i / total_minutes and the estimates sum to the total (120
\* and 60 minutes with a total of 300 give 200 and 100); when every duration
\* parses to 0, each of the n itineraries gets total / n (300 over 2 gives 150
\* and 150).
C9_ProratedByDuration ==
    (Returned /\ call.fn = "summarize_offer" /\ ~ret.raised) =>
        LET mins == MinutesOf(call.arg)
            n == Len(mins)
            total == TotalOf(call.arg)
            est == ret.v.per_leg_est
        IN  /\ SumSeq(mins) > 0 =>
                /\ Len(est) = n
                /\ \A i \in 1..n :
                       SameNumber(est[i], [num |-> total * mins[i], den |-> SumSeq(mins)])
                /\ \A i \in 1..n : est[i].den = est[1].den
                /\ SumSeq([i \in 1..n |-> est[i].num]) = total * est[1].den
            /\ (n >= 1 /\ \A i \in 1..n : mins[i] = 0) =>
                /\ Len(est) = n
                /\ \A i \in 1..n : SameNumber(est[i], [num |-> total, den |-> n])
            /\ (mins = <<120, 60>> /\ total = 300000) =>
                /\ SameNumber(est[1], Whole(200000))
                /\ SameNumber(est[2], Whole(100000))
            /\ (mins = <<0, 0>> /\ total = 300000) =>
                /\ SameNumber(est[1], Whole(150000))
                /\ SameNumber(est[2], Whole(150000))

C9_Witness ==
    /\ Returned /\ call.fn = "summarize_offer" /\ ~ret.raised
    /\ ret.v.mins = <<120, 60>>
    /\ ret.v.total_f = 300000
    /\ SameNumber(ret.v.per_leg_est[1], Whole(200000))
    /\ SameNumber(ret.v.per_leg_est[2], Whole(100000))

\* C10: in a run with a qualifying offer, whichever of the enabled channels
\* fail, every other enabled channel is still tried, the run reaches its end,
\* and save_last_price was given this run's best price, which the state file
\* holds: a failed send prevents neither another channel nor the persistence.
C10_FailedSendBlocksNothing ==
    Ran("report") =>
        /\ \A ch \in Channels :
               /\ run.env[ch] = "ok" => run.sent[ch] = "sent"
               /\ run.env[ch] = "fails" => run.sent[ch] = "failed"
        /\ run.saved = run.best_price
        /\ run.saving = "written" => stateFile = Some([last_price |-> run.best_price])

C10_Witness ==
    /\ Ran("report")
    /\ run.env["email"] = "fails" /\ run.sent["email"] = "failed"
    /\ run.sent["telegram"] = "sent" /\ run.sent["discord"] = "sent"
    /\ stateFile = Some([last_price |-> run.best_price])

====
